---- MODULE Spec2Model ----
(***************************************************************************)
(* Model of serena/tools/symbol_tools.py: the symbol query operations of   *)
(* the language-server tool set, the symbol sanitizers, the location entry *)
(* builders, the clean-up pass and the answer length limit.                *)
(*                                                                         *)
(* Python values are tagged records: the tag t is the Python type, so that *)
(* isinstance tests, truthiness and None tests are modelled as the code    *)
(* performs them.  A raised exception is the tagged value Raise(name).     *)
(***************************************************************************)
EXTENDS Integers, Sequences, FiniteSets, TLC

VARIABLES lsActive, pc, request, answer, calls, payload, response

vars == <<lsActive, pc, request, answer, calls, payload, response>>

----------------------------------------------------------------------------
(* Bounds of the model *)

MaxDepth == 2          \* nesting depth of the symbol trees the collaborators return
MaxSyms == 1           \* symbols returned by one find_by_name call
MaxRefs == 2           \* referencing symbols returned by one call
MaxLocs == 2           \* raw locations returned by request_definition / request_references
MaxDefs == 1           \* raw locations returned to Get defining symbol
MaxHoverParts == 2     \* entries of a list-shaped hover content
MaxCoord == 4          \* line and character numbers of the ranges given to _format_range
MaxCleanDepth == 1     \* nesting depth of the elements of a value given to _clean_none_and_empty
MaxCleanLen == 2       \* length of a list given to _clean_none_and_empty

----------------------------------------------------------------------------
(* Python values *)

None == [t |-> "none"]
PyStr(s) == [t |-> "str", v |-> s]
PyInt(i) == [t |-> "int", v |-> i]
PyBool(b) == [t |-> "bool", v |-> b]
PyDict(f) == [t |-> "dict", v |-> f]
PyList(l) == [t |-> "list", v |-> l]
\* a multi-line text (a symbol body): a str whose lines are kept apart,
\* each with its count of leading blanks
PyText(ls) == [t |-> "str", lines |-> ls]
Raise(e) == [t |-> "raise", exc |-> e]

IsRaise(x) == x.t = "raise"
IsText(x) == x.t = "str" /\ "lines" \in DOMAIN x

EmptyDict == <<>>

\* bool(v)
Truthy(x) ==
  CASE x.t = "none" -> FALSE
    [] x.t = "str" -> IF IsText(x) THEN Len(x.lines) > 0 ELSE x.v # ""
    [] x.t = "int" -> x.v # 0
    [] x.t = "bool" -> x.v
    [] x.t = "dict" -> DOMAIN x.v # {}
    [] x.t = "list" -> Len(x.v) > 0
    [] OTHER -> TRUE

HasKey(d, k) == k \in DOMAIN d.v
\* d.get(k)
DictGet(d, k) == IF k \in DOMAIN d.v THEN d.v[k] ELSE None
\* the mapping after d.pop(k, None)
Pop(f, k) == [x \in (DOMAIN f) \ {k} |-> f[x]]
\* the mapping after d[k] = val
Put(f, k, val) == (k :> val) @@ f

\* the first exception raised while mapping over a list, if any
FirstRaise(s) ==
  LET bad == {i \in 1..Len(s) : IsRaise(s[i])}
  IN IF bad = {} THEN None ELSE s[CHOOSE i \in bad : \A j \in bad : i <= j]

----------------------------------------------------------------------------
(* _format_range *)

\* variant: the numbers are printed as they come, zero-indexed
_format_range_zero_indexed(rng) ==
  IF rng.t # "dict" THEN Raise("TypeError")
  ELSE IF ~ ({"start", "end"} \subseteq DOMAIN rng.v) THEN Raise("KeyError")
  ELSE LET start == rng.v["start"]
           end == rng.v["end"]
       IN PyStr(ToString(start.v["line"].v) \o ":" \o ToString(start.v["character"].v)
                \o "-" \o ToString(end.v["line"].v) \o ":" \o ToString(end.v["character"].v))

_format_range(rng) ==
  IF rng.t # "dict" THEN Raise("TypeError")      \* rng["start"] on a str or None
  ELSE IF ~ ({"start", "end"} \subseteq DOMAIN rng.v) THEN Raise("KeyError")
  ELSE LET start == rng.v["start"]
           end == rng.v["end"]
       IN PyStr(ToString(start.v["line"].v + 1) \o ":" \o ToString(start.v["character"].v + 1)
                \o "-" \o ToString(end.v["line"].v + 1) \o ":" \o ToString(end.v["character"].v + 1))

----------------------------------------------------------------------------
(* _sanitize_symbol_dict *)

\* variant: the raw location is left in place
_sanitize_symbol_dict_keeps_location(symbol_dict) ==
  LET d0 == symbol_dict.v
      location == IF "location" \in DOMAIN d0 THEN d0["location"] ELSE PyDict(EmptyDict)
  IN IF location.t # "dict" THEN Raise("AttributeError")
     ELSE
       LET s_relative_path == DictGet(location, "relative_path")
           d1 == IF s_relative_path # None THEN Put(d0, "relative_path", s_relative_path) ELSE d0
           rng == DictGet(PyDict(d1), "range")
           formatted == _format_range(rng)
       IN IF Truthy(rng) /\ IsRaise(formatted) THEN formatted
          ELSE
            LET d3 == IF Truthy(rng) THEN Put(d1, "range", formatted) ELSE d1
            IN IF "name" \notin DOMAIN d3 THEN Raise("KeyError")
               ELSE PyDict(Pop(d3, "name"))

_sanitize_symbol_dict(symbol_dict) ==
  LET d0 == symbol_dict.v
      location == IF "location" \in DOMAIN d0 THEN d0["location"] ELSE PyDict(EmptyDict)
  IN IF location.t # "dict" THEN Raise("AttributeError")
     ELSE
       LET s_relative_path == DictGet(location, "relative_path")
           d1 == IF s_relative_path # None THEN Put(d0, "relative_path", s_relative_path) ELSE d0
           d2 == Pop(d1, "location")
           rng == DictGet(PyDict(d2), "range")
           formatted == _format_range(rng)
       IN IF Truthy(rng) /\ IsRaise(formatted) THEN formatted
          ELSE
            LET d3 == IF Truthy(rng) THEN Put(d2, "range", formatted) ELSE d2
            IN IF "name" \notin DOMAIN d3 THEN Raise("KeyError")
               ELSE PyDict(Pop(d3, "name"))

----------------------------------------------------------------------------
(* _clean_none_and_empty *)

\* the filter of both comprehensions
KeptByClean(x) == x # None /\ (x.t \notin {"list", "dict"} \/ Truthy(x))

RECURSIVE SelectKept(_)
SelectKept(s) ==
  IF s = <<>> THEN <<>>
  ELSE IF KeptByClean(Head(s)) THEN <<Head(s)>> \o SelectKept(Tail(s))
  ELSE SelectKept(Tail(s))

\* variant: the filter looks at the values before they are cleaned
RECURSIVE _clean_none_and_empty_filters_first(_)
_clean_none_and_empty_filters_first(obj) ==
  IF obj.t = "dict" THEN
    LET keep == {k \in DOMAIN obj.v : KeptByClean(obj.v[k])}
    IN PyDict([k \in keep |-> _clean_none_and_empty_filters_first(obj.v[k])])
  ELSE IF obj.t = "list" THEN
    LET kept == SelectKept(obj.v)
    IN PyList([i \in 1..Len(kept) |-> _clean_none_and_empty_filters_first(kept[i])])
  ELSE obj

RECURSIVE _clean_none_and_empty(_)
_clean_none_and_empty(obj) ==
  IF obj.t = "dict" THEN
    LET cleaned == [k \in DOMAIN obj.v |-> _clean_none_and_empty(obj.v[k])]
        keep == {k \in DOMAIN obj.v : KeptByClean(cleaned[k])}
    IN PyDict([k \in keep |-> cleaned[k]])
  ELSE IF obj.t = "list" THEN
    PyList(SelectKept([i \in 1..Len(obj.v) |-> _clean_none_and_empty(obj.v[i])]))
  ELSE obj

----------------------------------------------------------------------------
(* solidlsp.ls_types.SymbolKind: the 26 kinds, by protocol number *)

SymbolKindNames ==
  << "File", "Module", "Namespace", "Package", "Class", "Method", "Property",
     "Field", "Constructor", "Enum", "Interface", "Function", "Variable",
     "Constant", "String", "Number", "Boolean", "Array", "Object", "Key",
     "Null", "EnumMember", "Struct", "Event", "Operator", "TypeParameter" >>

\* SymbolKind(k): the enum member, or ValueError
SymbolKind(k) == IF k \in 1..Len(SymbolKindNames) THEN PyInt(k) ELSE Raise("ValueError")

\* [SymbolKind(k) for k in kinds] if kinds else None
ParseKinds(kinds) ==
  IF kinds = <<>> THEN None
  ELSE LET parsed == [i \in 1..Len(kinds) |-> SymbolKind(kinds[i])]
       IN IF FirstRaise(parsed) # None THEN FirstRaise(parsed) ELSE PyList(parsed)

----------------------------------------------------------------------------
(* _serialize_symbol *)

\* str.lstrip of a line
LStrip(line) == [line EXCEPT !.indent = 0]

\* textwrap.dedent of a block of lines: blank lines are normalised, the
\* common leading blanks of the other lines are removed
Dedent(ls) ==
  LET inked == {i \in 1..Len(ls) : ls[i].text # ""}
      margin == IF inked = {} THEN 0
                ELSE LET m == CHOOSE i \in inked : \A j \in inked : ls[i].indent <= ls[j].indent
                     IN ls[m].indent
  IN [i \in 1..Len(ls) |->
        IF ls[i].text = "" THEN [indent |-> 0, text |-> ""]
        ELSE [indent |-> ls[i].indent - margin, text |-> ls[i].text]]

SerializeBody(body) ==
  IF body.t = "str" /\ IsText(body) /\ Len(body.lines) > 0
  THEN PyText(<<LStrip(Head(body.lines))>> \o Dedent(Tail(body.lines)))
  ELSE body

SerializeKind(kind_value) ==
  IF kind_value.t = "int"
  THEN IF ~ IsRaise(SymbolKind(kind_value.v))
       THEN PyStr(SymbolKindNames[kind_value.v])
       ELSE PyStr(ToString(kind_value.v))
  ELSE kind_value

\* the value stored under "location", or the exception raised on the way
SerializeLocation(location) ==
  IF location.t = "str" /\ Truthy(location) THEN Raise("ValueError")   \* dict("a.py:2:3-4:5")
  ELSE IF location.t \notin {"str", "dict"} THEN Raise("TypeError")
  ELSE
    LET loc_dict == IF location.t = "str" THEN PyDict(EmptyDict) ELSE location   \* dict("") is {}
        rel == DictGet(loc_dict, "relativePath")
        path == IF ~ Truthy(rel) THEN DictGet(loc_dict, "uri") ELSE rel
        loc_rng == DictGet(loc_dict, "range")
        formatted == _format_range(loc_rng)
    IN IF Truthy(path) /\ Truthy(loc_rng)
       THEN IF IsRaise(formatted) THEN formatted
            ELSE PyStr(path.v \o ":" \o formatted.v)
       ELSE IF Truthy(rel)
            THEN PyDict(Pop(Pop(loc_dict.v, "uri"), "absolutePath"))
            ELSE loc_dict

RECURSIVE _serialize_symbol(_)
_serialize_symbol(symbol) ==
  LET s0 == Pop(Pop(Pop(symbol.v, "parent"), "glyph"), "selectionRange")
      s1 == IF "kind" \in DOMAIN s0 THEN Put(s0, "kind", SerializeKind(s0["kind"])) ELSE s0
      children == DictGet(PyDict(s1), "children")
      kids == IF children.t = "list"
              THEN [i \in 1..Len(children.v) |-> _serialize_symbol(children.v[i])]
              ELSE <<>>
      rng == DictGet(PyDict(s1), "range")
      formatted == _format_range(rng)
      location == DictGet(PyDict(s1), "location")
      newloc == SerializeLocation(location)
  IN IF FirstRaise(kids) # None THEN FirstRaise(kids)
     ELSE IF Truthy(rng) /\ IsRaise(formatted) THEN formatted
     ELSE IF location # None /\ IsRaise(newloc) THEN newloc
     ELSE
       LET s2 == IF children.t = "list" THEN Put(s1, "children", PyList(kids)) ELSE s1
           s3 == IF Truthy(rng) THEN Put(s2, "range", formatted) ELSE s2
           s4 == IF location # None THEN Put(s3, "location", newloc) ELSE s3
           s5 == IF "body" \in DOMAIN s4 THEN Put(s4, "body", SerializeBody(s4["body"])) ELSE s4
       IN PyDict(s5)

----------------------------------------------------------------------------
(* The project: its root, os.path.relpath against it, and the text around
   a line *)

ProjectRoot == "/proj"

\* os.path.relpath(path, ProjectRoot) on the absolute paths of the model
relpath(path) ==
  CASE path = "" -> Raise("ValueError")
    [] path = "/proj/b.py" -> PyStr("b.py")
    [] path = "/lib/c.py" -> PyStr("../lib/c.py")
    [] OTHER -> PyStr(path)

\* project.retrieve_content_around_line(...).to_display_string()
retrieve_content_around_line(relative_file_path, line, context_lines_before, context_lines_after) ==
  PyStr(relative_file_path.v \o "[" \o ToString(line - context_lines_before)
        \o ".." \o ToString(line + context_lines_after) \o "]")

----------------------------------------------------------------------------
(* _format_definition_entries and _format_reference_entries *)

\* definition["range"]["start"]["line"]
RangeStartLine(loc) ==
  IF ~ HasKey(loc, "range") THEN Raise("KeyError")
  ELSE IF loc.v["range"].t # "dict" THEN Raise("TypeError")
  ELSE IF ~ HasKey(loc.v["range"], "start") THEN Raise("KeyError")
  ELSE loc.v["range"].v["start"].v["line"]

ResolvePath(loc) ==
  LET path == DictGet(loc, "relativePath")
      absolute == DictGet(loc, "absolutePath")
  IN IF path = None /\ absolute # None THEN relpath(absolute.v) ELSE path

\* variant: the uri is never added
MakeEntry_without_uri(loc, path, formatted_range, snippet) ==
  PyDict([relative_path |-> path, range |-> formatted_range, snippet |-> snippet])

MakeEntry(loc, path, formatted_range, snippet) ==
  LET entry == [relative_path |-> path, range |-> formatted_range, snippet |-> snippet]
  IN PyDict(IF path = None THEN Put(entry, "uri", DictGet(loc, "uri")) ELSE entry)

DefinitionEntry(definition) ==
  LET definition_path == ResolvePath(definition)
      line == RangeStartLine(definition)
      rng == DictGet(definition, "range")
      formatted == _format_range(rng)
  IN IF IsRaise(definition_path) THEN definition_path
     ELSE IF definition_path # None /\ IsRaise(line) THEN line
     ELSE IF Truthy(rng) /\ IsRaise(formatted) THEN formatted
     ELSE MakeEntry(definition, definition_path,
                    IF Truthy(rng) THEN formatted ELSE None,
                    IF definition_path # None
                    THEN retrieve_content_around_line(definition_path, line.v, 2, 2)
                    ELSE None)

_format_definition_entries(definitions) ==
  LET entries == [i \in 1..Len(definitions) |-> DefinitionEntry(definitions[i])]
  IN IF FirstRaise(entries) # None THEN FirstRaise(entries) ELSE PyList(entries)

ReferenceEntry(ref) ==
  LET ref_path == ResolvePath(ref)
      rng == DictGet(ref, "range")
      line == RangeStartLine(ref)
      formatted == _format_range(rng)
  IN IF IsRaise(ref_path) THEN ref_path
     ELSE IF ref_path # None /\ Truthy(rng) /\ IsRaise(line) THEN line
     ELSE IF Truthy(rng) /\ IsRaise(formatted) THEN formatted
     ELSE MakeEntry(ref, ref_path,
                    IF Truthy(rng) THEN formatted ELSE None,
                    IF ref_path # None /\ Truthy(rng)
                    THEN retrieve_content_around_line(ref_path, line.v, 2, 2)
                    ELSE None)

_format_reference_entries(references) ==
  LET entries == [i \in 1..Len(references) |-> ReferenceEntry(references[i])]
  IN IF FirstRaise(entries) # None THEN FirstRaise(entries) ELSE PyList(entries)

----------------------------------------------------------------------------
(* The output serializer (Tool._to_output) and the answer length limit
   (Tool._limit_length) of the tool base class *)

RECURSIVE Spaces(_)
Spaces(n) == IF n <= 0 THEN "" ELSE " " \o Spaces(n - 1)

RECURSIVE JoinLines(_)
JoinLines(ls) ==
  IF ls = <<>> THEN ""
  ELSE Spaces(Head(ls).indent) \o Head(ls).text
       \o (IF Tail(ls) = <<>> THEN "" ELSE "\\n" \o JoinLines(Tail(ls)))

RECURSIVE Render(_, _)
RECURSIVE RenderItems(_, _)
RECURSIVE RenderElems(_, _)

\* q is the quote character: JSON output uses ", Python's str() uses '
Render(x, q) ==
  CASE x.t = "none" -> IF q = "'" THEN "None" ELSE "null"
    [] x.t = "str" -> q \o (IF IsText(x) THEN JoinLines(x.lines) ELSE x.v) \o q
    [] x.t = "int" -> ToString(x.v)
    [] x.t = "bool" -> IF q = "'" THEN (IF x.v THEN "True" ELSE "False")
                       ELSE (IF x.v THEN "true" ELSE "false")
    [] x.t = "dict" -> "{" \o RenderItems(x.v, q) \o "}"
    [] x.t = "list" -> "[" \o RenderElems(x.v, q) \o "]"
    [] OTHER -> "?"

RenderItems(f, q) ==
  IF DOMAIN f = {} THEN ""
  ELSE LET k == CHOOSE key \in DOMAIN f : TRUE
           rest == Pop(f, k)
       IN q \o k \o q \o ": " \o Render(f[k], q)
          \o (IF DOMAIN rest = {} THEN "" ELSE ", " \o RenderItems(rest, q))

RenderElems(l, q) ==
  IF l = <<>> THEN ""
  ELSE Render(Head(l), q) \o (IF Tail(l) = <<>> THEN "" ELSE ", " \o RenderElems(Tail(l), q))

_to_output(x) == PyStr(Render(x, "\""))

\* str(x) of a structured value
PyRepr(x) == PyStr(Render(x, "'"))

DefaultMaxAnswerChars == 400

TooLongNotice ==
  "The answer is too long. Please try a more specific tool query or raise the max_answer_chars parameter."

_limit_length(result, max_answer_chars) ==
  LET budget == IF max_answer_chars = -1 THEN DefaultMaxAnswerChars ELSE max_answer_chars
  IN IF Len(result.v) > budget THEN PyStr(TooLongNotice) ELSE result

----------------------------------------------------------------------------
(* What the collaborators can return *)

Position(l, c) == PyDict([line |-> PyInt(l), character |-> PyInt(c)])
RangeOf(sl, sc, el, ec) == PyDict([start |-> Position(sl, sc), end |-> Position(el, ec)])
R1 == RangeOf(1, 2, 3, 4)

\* all sequences over S of length at most n
SeqsUpTo(S, n) == UNION {[1..k -> S] : k \in 0..n}

\* a dict with the given keys, taken from a dict holding all of them
Restrict(f, keys) == [k \in keys |-> f[k]]

Body1 == PyText(<< [indent |-> 4, text |-> "def f():"],
                   [indent |-> 8, text |-> "if x:"],
                   [indent |-> 0, text |-> ""],
                   [indent |-> 12, text |-> "pass"] >>)

\* LanguageServerSymbol objects (the Symbol Retriever's results): a symbol
\* with or without a file path and a range, over a chain of k nested children
RECURSIVE ChildChain(_)
ChildChain(k) ==
  IF k = 0 THEN <<>>
  ELSE << [name |-> "g", name_path |-> "A/f/g", kind |-> 13,
           relative_path |-> PyStr("a.py"), range |-> R1,
           body |-> Body1, children |-> ChildChain(k - 1)] >>

Symbols(d) ==
  {[name |-> "f", name_path |-> "A/f", kind |-> 12, relative_path |-> rp, range |-> rng,
    body |-> Body1, children |-> ChildChain(k)] :
     rp \in {None, PyStr("a.py")}, rng \in {None, R1}, k \in 0..d}

\* LanguageServerSymbol.to_dict(kind=True, location=True, depth, include_body)
RECURSIVE to_dict(_, _, _)
to_dict(s, depth, include_body) ==
  LET base == [name |-> PyStr(s.name), name_path |-> PyStr(s.name_path),
               kind |-> PyStr(SymbolKindNames[s.kind]),
               location |-> PyDict([relative_path |-> s.relative_path])]
      d1 == IF s.range # None THEN Put(base, "range", s.range) ELSE base
      d2 == IF include_body THEN Put(d1, "body", s.body) ELSE d1
      d3 == IF depth > 0
            THEN Put(d2, "children",
                     PyList([i \in 1..Len(s.children) |-> to_dict(s.children[i], depth - 1, include_body)]))
            ELSE d2
  IN PyDict(d3)

\* raw protocol locations: every combination of present and absent fields
FullLocation ==
  [relativePath |-> PyStr("a.py"), absolutePath |-> PyStr("/proj/b.py"),
   uri |-> PyStr("file:///proj/u.py"), range |-> R1]

RawLocations == {PyDict(Restrict(FullLocation, keys)) : keys \in SUBSET DOMAIN FullLocation}

\* the raw locations Get defining symbol is run on
FewLocations ==
  {PyDict(Restrict(FullLocation, keys)) :
     keys \in {{"relativePath", "uri", "range"}, {"uri", "range"}, {"range"}, {"relativePath", "uri"}}}

\* raw protocol symbols (request_defining_symbol): a chain of k nested
\* children, each with or without its range and location
RECURSIVE RawChildChain(_, _)
RawChildChain(k, keys) ==
  LET full == [name |-> PyStr("g"), kind |-> PyInt(6), parent |-> PyStr("f"),
               selectionRange |-> R1, range |-> R1,
               location |-> PyDict(Restrict(FullLocation, {"relativePath", "uri", "range"}))]
  IN IF k = 0 THEN PyList(<<>>)
     ELSE PyList(<<PyDict(Put(Restrict(full, keys), "children", RawChildChain(k - 1, keys)))>>)

RawSymbols(d, include_body) ==
  LET locs == {None} \cup
              {PyDict(Restrict(FullLocation, keys)) :
                 keys \in {DOMAIN FullLocation, {"uri", "range"}, {"relativePath", "uri"}}}
      childkeys == {"name", "kind", "parent", "selectionRange"}
      kidlists == {None} \cup
                  {RawChildChain(k, keys) :
                     k \in 0..d, keys \in {childkeys, childkeys \cup {"range", "location"}}}
      Opt(f, k, val) == IF val = None THEN f ELSE Put(f, k, val)
      base == [name |-> PyStr("f"), parent |-> PyStr("A"), glyph |-> PyStr("fn"), selectionRange |-> R1]
      withBody == IF include_body THEN Put(base, "body", Body1) ELSE base
  IN {PyDict(Opt(Opt(Opt(Put(withBody, "kind", kind), "range", rng), "location", loc), "children", kl)) :
        kind \in {PyInt(12), PyInt(99)}, rng \in {None, R1}, loc \in locs, kl \in kidlists}

----------------------------------------------------------------------------
(* The operations.  Each yields the collaborator calls it made, the answer
   it received, the payload it handed to the serializer and its response:
   the returned string or the exception raised. *)

Out(c, a, p, r) == [calls |-> c, answer |-> a, payload |-> p, response |-> r]

SUCCESS_RESULT == PyStr("OK")

\* the project tree: os.path.exists and os.path.isdir under the project root
Paths == {"a.py", "pkg", "gone.py"}
PathExists(relative_path) == relative_path \in {"a.py", "pkg"}
PathIsDir(relative_path) == relative_path = "pkg"

\* variant: the language server is handed out whatever the agent's mode
_get_language_server_without_mode_check(active) == None

\* _LanguageServerToolMixin._get_language_server
_get_language_server(active) ==
  IF ~ active THEN Raise("RuntimeError") ELSE None

RestartLanguageServerTool_apply ==
  Out(<<"reset_language_server_manager">>, None, None, SUCCESS_RESULT)

\* variant: the path is checked after the overview was requested
GetSymbolsOverviewTool_apply_checks_late(relative_path, max_answer_chars, overview) ==
  LET called == <<"create_language_server_symbol_retriever", "get_symbol_overview">>
  IN IF ~ PathExists(relative_path) THEN Out(called, PyList(overview), None, Raise("FileNotFoundError"))
     ELSE IF PathIsDir(relative_path) THEN Out(called, PyList(overview), None, Raise("ValueError"))
     ELSE LET result_payload == PyList(overview)
          IN Out(called, PyList(overview), result_payload,
                 _limit_length(_to_output(result_payload), max_answer_chars))

GetSymbolsOverviewTool_apply(relative_path, max_answer_chars, overview) ==
  LET created == <<"create_language_server_symbol_retriever">>
  IN IF ~ PathExists(relative_path) THEN Out(created, None, None, Raise("FileNotFoundError"))
     ELSE IF PathIsDir(relative_path) THEN Out(created, None, None, Raise("ValueError"))
     ELSE LET result_payload == PyList(overview)
          IN Out(created \o <<"get_symbol_overview">>, PyList(overview), result_payload,
                 _limit_length(_to_output(result_payload), max_answer_chars))

\* variant: the search runs before the kinds are parsed
FindSymbolTool_apply_searches_first(depth, include_body, include_kinds, exclude_kinds, max_answer_chars, symbols) ==
  LET parsed_include_kinds == ParseKinds(include_kinds)
      parsed_exclude_kinds == ParseKinds(exclude_kinds)
      called == <<"create_language_server_symbol_retriever", "find_by_name">>
      symbol_dicts == [i \in 1..Len(symbols) |->
                         _sanitize_symbol_dict(to_dict(symbols[i], depth, include_body))]
  IN IF IsRaise(parsed_include_kinds) THEN Out(called, PyList(symbols), None, parsed_include_kinds)
     ELSE IF IsRaise(parsed_exclude_kinds) THEN Out(called, PyList(symbols), None, parsed_exclude_kinds)
     ELSE IF FirstRaise(symbol_dicts) # None THEN Out(called, PyList(symbols), None, FirstRaise(symbol_dicts))
     ELSE Out(called, PyList(symbols), PyList(symbol_dicts),
              _limit_length(_to_output(PyList(symbol_dicts)), max_answer_chars))

FindSymbolTool_apply(depth, include_body, include_kinds, exclude_kinds, max_answer_chars, symbols) ==
  LET parsed_include_kinds == ParseKinds(include_kinds)
      parsed_exclude_kinds == ParseKinds(exclude_kinds)
      called == <<"create_language_server_symbol_retriever", "find_by_name">>
      symbol_dicts == [i \in 1..Len(symbols) |->
                         _sanitize_symbol_dict(to_dict(symbols[i], depth, include_body))]
  IN IF IsRaise(parsed_include_kinds) THEN Out(<<>>, None, None, parsed_include_kinds)
     ELSE IF IsRaise(parsed_exclude_kinds) THEN Out(<<>>, None, None, parsed_exclude_kinds)
     ELSE IF FirstRaise(symbol_dicts) # None THEN Out(called, PyList(symbols), None, FirstRaise(symbol_dicts))
     ELSE Out(called, PyList(symbols), PyList(symbol_dicts),
              _limit_length(_to_output(PyList(symbol_dicts)), max_answer_chars))

\* variant: a reference without a relative path is kept, without its context
ReferenceDict_without_assert(ref) ==
  LET ref_dict == _sanitize_symbol_dict(to_dict(ref.symbol, 0, FALSE))
      ref_relative_path == ref.symbol.relative_path
  IN IF IsRaise(ref_dict) THEN ref_dict
     ELSE IF ref_relative_path = None THEN ref_dict
     ELSE PyDict(Put(ref_dict.v, "content_around_reference",
                     retrieve_content_around_line(ref_relative_path, ref.line, 1, 1)))

\* one pass of the loop over references_in_symbols
ReferenceDict(ref) ==
  LET ref_dict == _sanitize_symbol_dict(to_dict(ref.symbol, 0, FALSE))
      ref_relative_path == ref.symbol.relative_path
  IN IF IsRaise(ref_dict) THEN ref_dict
     ELSE IF ref_relative_path = None THEN Raise("AssertionError")
     ELSE PyDict(Put(ref_dict.v, "content_around_reference",
                     retrieve_content_around_line(ref_relative_path, ref.line, 1, 1)))

FindReferencingSymbolsTool_apply(include_kinds, exclude_kinds, max_answer_chars, references_in_symbols) ==
  LET parsed_include_kinds == ParseKinds(include_kinds)
      parsed_exclude_kinds == ParseKinds(exclude_kinds)
      called == <<"create_language_server_symbol_retriever", "find_referencing_symbols">>
      reference_dicts == [i \in 1..Len(references_in_symbols) |-> ReferenceDict(references_in_symbols[i])]
  IN IF IsRaise(parsed_include_kinds) THEN Out(<<>>, None, None, parsed_include_kinds)
     ELSE IF IsRaise(parsed_exclude_kinds) THEN Out(<<>>, None, None, parsed_exclude_kinds)
     ELSE IF FirstRaise(reference_dicts) # None
          THEN Out(called, PyList(references_in_symbols), None, FirstRaise(reference_dicts))
     ELSE Out(called, PyList(references_in_symbols), PyList(reference_dicts),
              _limit_length(_to_output(PyList(reference_dicts)), max_answer_chars))

\* the editing operations: one call on the code editor each
EditTool_apply(method) == Out(<<"create_code_editor", method>>, None, None, SUCCESS_RESULT)

RenameSymbolTool_apply(status_message) ==
  Out(<<"create_code_editor", "rename_symbol">>, status_message, None, status_message)

\* contents.get("value", str(contents))
ValueOrRepr(d) == IF HasKey(d, "value") THEN d.v["value"] ELSE PyRepr(d)

\* the parts list built from a list-shaped hover content
RECURSIVE HoverParts(_)
HoverParts(contents) ==
  IF contents = <<>> THEN <<>>
  ELSE LET part == Head(contents)
       IN (IF part.t = "str" THEN <<part.v>>
           ELSE IF part.t = "dict" THEN <<ValueOrRepr(part).v>>
           ELSE <<>>) \o HoverParts(Tail(contents))

\* variant: "\n".join(parts)
RECURSIVE JoinParts_single_newline(_)
JoinParts_single_newline(parts) ==
  IF parts = <<>> THEN ""
  ELSE Head(parts) \o (IF Tail(parts) = <<>> THEN "" ELSE "\n" \o JoinParts_single_newline(Tail(parts)))

\* "\n\n".join(parts)
RECURSIVE JoinParts(_)
JoinParts(parts) ==
  IF parts = <<>> THEN ""
  ELSE Head(parts) \o (IF Tail(parts) = <<>> THEN "" ELSE "\n\n" \o JoinParts(Tail(parts)))

HoverText(result) ==
  IF result = None THEN PyStr("No hover information available.")
  ELSE LET contents == DictGet(result, "contents")
       IN IF ~ Truthy(contents) THEN PyStr("No content in hover result.")
          ELSE IF contents.t = "str" THEN contents
          ELSE IF contents.t = "dict" THEN ValueOrRepr(contents)
          ELSE IF contents.t = "list" THEN PyStr(JoinParts(HoverParts(contents.v)))
          ELSE PyRepr(contents)

GetHoverInfoTool_apply(active, result) ==
  IF IsRaise(_get_language_server(active)) THEN Out(<<>>, None, None, _get_language_server(active))
  ELSE Out(<<"request_hover">>, result, HoverText(result), HoverText(result))

GetDefinitionLocationsTool_apply(active, max_answer_chars, definitions) ==
  LET definition_entries == _format_definition_entries(definitions)
      cleaned == _clean_none_and_empty(definition_entries)
  IN IF IsRaise(_get_language_server(active)) THEN Out(<<>>, None, None, _get_language_server(active))
     ELSE IF IsRaise(definition_entries) THEN Out(<<"request_definition">>, PyList(definitions), None, definition_entries)
     ELSE Out(<<"request_definition">>, PyList(definitions), cleaned,
              _limit_length(_to_output(cleaned), max_answer_chars))

GetReferenceLocationsTool_apply(active, max_answer_chars, references) ==
  LET reference_entries == _format_reference_entries(references)
      cleaned == _clean_none_and_empty(reference_entries)
  IN IF IsRaise(_get_language_server(active)) THEN Out(<<>>, None, None, _get_language_server(active))
     ELSE IF IsRaise(reference_entries) THEN Out(<<"request_references">>, PyList(references), None, reference_entries)
     ELSE Out(<<"request_references">>, PyList(references), cleaned,
              _limit_length(_to_output(cleaned), max_answer_chars))

GetDefiningSymbolTool_apply(active, max_answer_chars, symbol, definitions) ==
  LET called == <<"request_defining_symbol", "request_definition">>
      got == PyDict([symbol |-> symbol, definitions |-> PyList(definitions)])
      definition_entries == _format_definition_entries(definitions)
      serialized == IF symbol # None THEN _serialize_symbol(symbol) ELSE None
      base == [symbol |-> serialized, definitions |-> definition_entries]
      full == IF symbol = None THEN Put(base, "error", PyStr("No defining symbol found.")) ELSE base
      cleaned == _clean_none_and_empty(PyDict(full))
  IN IF IsRaise(_get_language_server(active)) THEN Out(<<>>, None, None, _get_language_server(active))
     ELSE IF IsRaise(definition_entries) THEN Out(called, got, None, definition_entries)
     ELSE IF IsRaise(serialized) THEN Out(called, got, None, serialized)
     ELSE Out(called, got, cleaned, _limit_length(_to_output(cleaned), max_answer_chars))

----------------------------------------------------------------------------
(* Requests *)

Budgets == {-1, 40}
\* include_kinds and exclude_kinds of a request
KindArgs == {<< <<>>, <<>> >>, << <<5>>, <<12, 13>> >>, << <<5, 27>>, <<>> >>, << <<12>>, <<0>> >>}

OverviewItem == PyDict([name_path |-> PyStr("A"), kind |-> PyStr("Class")])
Overviews == SeqsUpTo({OverviewItem}, MaxSyms + 1)

References == [symbol : Symbols(0), line : {7}]

Paragraph == "class A: a documented class with a rather long description that goes on and on and on and on and on and on."
LongText == Paragraph \o Paragraph \o Paragraph \o Paragraph

HoverPartValues ==
  {PyStr("a"), PyDict([language |-> PyStr("py"), value |-> PyStr("b")]),
   PyDict([language |-> PyStr("py")]), PyInt(7)}

HoverContents ==
  {None, PyStr(""), PyStr("x"), PyStr(LongText), PyDict(EmptyDict),
   PyDict([kind |-> PyStr("markdown"), value |-> PyStr("x")]),
   PyDict([kind |-> PyStr("markdown")])}
  \cup {PyList(l) : l \in SeqsUpTo(HoverPartValues, MaxHoverParts)}

HoverResults == {None, PyDict(EmptyDict)} \cup {PyDict([contents |-> c]) : c \in HoverContents}

----------------------------------------------------------------------------
(* The state machine: one request at a time, run to completion *)

Init ==
  /\ lsActive \in BOOLEAN
  /\ pc = "ready"
  /\ request = None
  /\ answer = None
  /\ calls = <<>>
  /\ payload = None
  /\ response = None

Respond(req, o) ==
  /\ pc' = "responded"
  /\ request' = req
  /\ answer' = o.answer
  /\ calls' = o.calls
  /\ payload' = o.payload
  /\ response' = o.response
  /\ UNCHANGED lsActive

RestartLanguageServer ==
  /\ pc = "ready"
  /\ Respond([op |-> "restart_language_server"], RestartLanguageServerTool_apply)

GetSymbolsOverview ==
  /\ pc = "ready"
  /\ \E relative_path \in Paths, max_answer_chars \in Budgets, overview \in Overviews :
      Respond([op |-> "get_symbols_overview", relative_path |-> relative_path,
               max_answer_chars |-> max_answer_chars],
              GetSymbolsOverviewTool_apply(relative_path, max_answer_chars, overview))

FindSymbol ==
  /\ pc = "ready"
  /\ \E depth \in 0..MaxDepth, include_body \in BOOLEAN, kinds \in KindArgs,
       max_answer_chars \in Budgets, symbols \in SeqsUpTo(Symbols(MaxDepth), MaxSyms) :
      Respond([op |-> "find_symbol", depth |-> depth, include_body |-> include_body,
               include_kinds |-> kinds[1], exclude_kinds |-> kinds[2],
               max_answer_chars |-> max_answer_chars],
              FindSymbolTool_apply(depth, include_body, kinds[1], kinds[2],
                                   max_answer_chars, symbols))

FindReferencingSymbols ==
  /\ pc = "ready"
  /\ \E kinds \in KindArgs, max_answer_chars \in Budgets, refs \in SeqsUpTo(References, MaxRefs) :
      Respond([op |-> "find_referencing_symbols", include_kinds |-> kinds[1],
               exclude_kinds |-> kinds[2], max_answer_chars |-> max_answer_chars],
              FindReferencingSymbolsTool_apply(kinds[1], kinds[2], max_answer_chars, refs))

ReplaceSymbolBody ==
  /\ pc = "ready"
  /\ Respond([op |-> "replace_symbol_body"], EditTool_apply("replace_body"))

InsertAfterSymbol ==
  /\ pc = "ready"
  /\ Respond([op |-> "insert_after_symbol"], EditTool_apply("insert_after_symbol"))

InsertBeforeSymbol ==
  /\ pc = "ready"
  /\ Respond([op |-> "insert_before_symbol"], EditTool_apply("insert_before_symbol"))

RenameSymbol ==
  /\ pc = "ready"
  /\ \E status_message \in {PyStr("OK"), PyStr("Rename failed: name collision")} :
      Respond([op |-> "rename_symbol"], RenameSymbolTool_apply(status_message))

GetHoverInfo ==
  /\ pc = "ready"
  /\ \E result \in HoverResults :
      Respond([op |-> "get_hover_info"],
              GetHoverInfoTool_apply(lsActive, result))

GetDefinitionLocations ==
  /\ pc = "ready"
  /\ \E max_answer_chars \in Budgets, definitions \in SeqsUpTo(RawLocations, MaxLocs) :
      Respond([op |-> "get_definition_locations", max_answer_chars |-> max_answer_chars],
              GetDefinitionLocationsTool_apply(lsActive, max_answer_chars, definitions))

GetReferenceLocations ==
  /\ pc = "ready"
  /\ \E max_answer_chars \in Budgets, references \in SeqsUpTo(RawLocations, MaxLocs) :
      Respond([op |-> "get_reference_locations", max_answer_chars |-> max_answer_chars],
              GetReferenceLocationsTool_apply(lsActive, max_answer_chars, references))

GetDefiningSymbol ==
  /\ pc = "ready"
  /\ \E include_body \in BOOLEAN, max_answer_chars \in Budgets :
    \E symbol \in {None} \cup RawSymbols(MaxDepth, include_body),
       definitions \in SeqsUpTo(FewLocations, MaxDefs) :
      Respond([op |-> "get_defining_symbol", include_body |-> include_body,
               max_answer_chars |-> max_answer_chars],
              GetDefiningSymbolTool_apply(lsActive, max_answer_chars, symbol, definitions))

\* the response is handed to the caller; nothing is kept between requests
Return ==
  /\ pc = "responded"
  /\ pc' = "ready"
  /\ request' = None
  /\ answer' = None
  /\ calls' = <<>>
  /\ payload' = None
  /\ response' = None
  /\ UNCHANGED lsActive

Next ==
  \/ RestartLanguageServer
  \/ GetSymbolsOverview
  \/ FindSymbol
  \/ FindReferencingSymbols
  \/ ReplaceSymbolBody
  \/ InsertAfterSymbol
  \/ InsertBeforeSymbol
  \/ RenameSymbol
  \/ GetHoverInfo
  \/ GetDefinitionLocations
  \/ GetReferenceLocations
  \/ GetDefiningSymbol
  \/ Return

Spec == Init /\ [][Next]_vars

----------------------------------------------------------------------------
(* The module's helper functions on their own, applied to inputs drawn from
   bounded sets *)

\* line and character numbers, with two that gain a digit when one is added
Coords == 0..MaxCoord \cup {9, 99}

\* the values the clean-up pass removes, and some it must keep
CleanLeaves == {None, PyStr(""), PyInt(0), PyBool(FALSE), PyList(<<>>), PyDict(EmptyDict)}

\* a leaf under at most d one-element lists and one-field dicts
RECURSIVE Nested(_)
Nested(d) ==
  IF d = 0 THEN CleanLeaves
  ELSE LET inner == Nested(d - 1)
       IN inner \cup {PyList(<<x>>) : x \in inner} \cup {PyDict("k" :> x) : x \in inner}

CleanInputs ==
  {PyList(l) : l \in SeqsUpTo(Nested(MaxCleanDepth), MaxCleanLen)}
    \cup {PyDict(f) : f \in [{"a", "b"} -> Nested(MaxCleanDepth)]}
    \cup Nested(MaxCleanDepth + 2)

PureInit ==
  /\ lsActive = FALSE
  /\ pc = "ready"
  /\ request = None
  /\ answer = None
  /\ calls = <<>>
  /\ payload = None
  /\ response = None

FormatRange ==
  /\ pc = "ready"
  /\ \E sl \in Coords, sc \in Coords, el \in Coords, ec \in Coords :
      LET rng == RangeOf(sl, sc, el, ec)
      IN Respond([op |-> "_format_range", rng |-> rng],
                 Out(<<>>, None, None, _format_range(rng)))

CleanNoneAndEmpty ==
  /\ pc = "ready"
  /\ \E obj \in CleanInputs :
      Respond([op |-> "_clean_none_and_empty", obj |-> obj],
              Out(<<>>, None, None, _clean_none_and_empty(obj)))

PureNext ==
  \/ FormatRange
  \/ CleanNoneAndEmpty
  \/ Return

PureSpec == PureInit /\ [][PureNext]_vars

----------------------------------------------------------------------------
(* What a response state shows *)

Responded(op) == pc = "responded" /\ request.op = op

Succeeded == pc = "responded" /\ ~ IsRaise(response)

\* the operation returned its payload, not the notice that replaces it
Delivered == Succeeded /\ response # PyStr(TooLongNotice)

EntryOps == {"get_definition_locations", "get_reference_locations", "get_defining_symbol"}

\* the raw locations the LSP session returned to an entry-building operation
RawAnswerLocations ==
  IF answer = None THEN <<>>
  ELSE IF request.op = "get_defining_symbol" THEN answer.v["definitions"].v
  ELSE answer.v

\* the entries of the payload of an entry-building operation
EmittedEntries ==
  IF payload = None THEN <<>>
  ELSE IF request.op = "get_defining_symbol"
       THEN (IF HasKey(payload, "definitions") THEN payload.v["definitions"].v ELSE <<>>)
       ELSE payload.v

\* the symbol objects of the payload of a symbol-returning operation
ReturnedSymbols ==
  IF payload = None THEN {}
  ELSE IF request.op = "get_defining_symbol"
       THEN (IF HasKey(payload, "symbol") THEN {payload.v["symbol"]} ELSE {})
       ELSE {payload.v[i] : i \in 1..Len(payload.v)}

RECURSIVE Descendants(_)
Descendants(sym) ==
  IF HasKey(sym, "children") /\ sym.v["children"].t = "list"
  THEN LET kids == {sym.v["children"].v[i] : i \in 1..Len(sym.v["children"].v)}
       IN kids \cup UNION {Descendants(c) : c \in kids}
  ELSE {}

Unresolvable(loc) == ~ HasKey(loc, "relativePath") /\ ~ HasKey(loc, "absolutePath")

\* the raw locations whose entry survives the clean-up pass (an entry with
\* no field left is dropped from the list)
EmittingLocations == SelectSeq(RawAnswerLocations, LAMBDA loc : DOMAIN loc.v # {})

----------------------------------------------------------------------------
(* C1: every entry emitted by Get definition locations, Get reference
   locations and Get defining symbol carries a relative_path or a uri. *)

C1_EntryHasPathOrUri ==
  (Delivered /\ request.op \in EntryOps) =>
    \A i \in 1..Len(EmittedEntries) :
      HasKey(EmittedEntries[i], "relative_path") \/ HasKey(EmittedEntries[i], "uri")

(* C2: sanitizing a sanitized symbol succeeds and returns it unchanged:
   the symbols Find symbol returns are fixed points of
   _sanitize_symbol_dict, the symbol Get defining symbol returns is a fixed
   point of _serialize_symbol. *)

C2_SanitizeIdempotent ==
  /\ (Delivered /\ request.op = "find_symbol") =>
       \A s \in ReturnedSymbols : _sanitize_symbol_dict(s) = s
  /\ (Delivered /\ request.op = "get_defining_symbol") =>
       \A s \in ReturnedSymbols : _serialize_symbol(s) = s

(* C3 as stated: no symbol returned by Find symbol, Find referencing
   symbols or Get defining symbol has a name, location, parent, glyph or
   selection_range key. *)

C4_ChildrenSanitized ==
  (Delivered /\ request.op \in {"find_symbol", "get_defining_symbol"}) =>
    \A s \in ReturnedSymbols : \A c \in Descendants(s) :
      /\ ~ HasKey(c, "name")
      /\ ~ HasKey(c, "location")
      /\ HasKey(c, "range") => c.v["range"].t = "str"

(* C5 as stated: the entry of a raw location with neither relativePath nor
   absolutePath keeps the raw uri and has neither range nor snippet. *)

C5_UnresolvedEntryOmitsRange ==
  (Delivered /\ request.op \in EntryOps) =>
    \A i \in 1..Len(EmittingLocations) :
      Unresolvable(EmittingLocations[i]) =>
        /\ DictGet(EmittedEntries[i], "uri") = DictGet(EmittingLocations[i], "uri")
        /\ ~ HasKey(EmittedEntries[i], "range")
        /\ ~ HasKey(EmittedEntries[i], "snippet")

(* C5 as amended: the entry of a raw location with neither relativePath nor
   absolutePath has no relative_path and no snippet, its uri is the raw
   uri, and it has a range, the formatted raw range, exactly when the raw
   location has one. *)

C5_UnresolvedEntryKeepsRange ==
  (Delivered /\ request.op \in EntryOps) =>
    /\ Len(EmittedEntries) = Len(EmittingLocations)
    /\ \A i \in 1..Len(EmittingLocations) :
         Unresolvable(EmittingLocations[i]) =>
           /\ ~ HasKey(EmittedEntries[i], "relative_path")
           /\ ~ HasKey(EmittedEntries[i], "snippet")
           /\ DictGet(EmittedEntries[i], "uri") = DictGet(EmittingLocations[i], "uri")
           /\ HasKey(EmittedEntries[i], "range") <=> HasKey(EmittingLocations[i], "range")
           /\ HasKey(EmittedEntries[i], "range") => EmittedEntries[i].v["range"] = PyStr("2:3-4:5")

C5_Witness ==
  /\ Delivered
  /\ request.op = "get_reference_locations"
  /\ Len(EmittedEntries) = 2
  /\ DOMAIN EmittingLocations[2].v = {"uri", "range"}
  /\ DOMAIN EmittedEntries[2].v = {"uri", "range"}

(* C6: when the LSP session has no defining symbol, Get defining symbol
   succeeds with a payload holding a null symbol field and a note. *)

C6_NullSymbolInPayload ==
  (Delivered /\ request.op = "get_defining_symbol" /\ answer.v["symbol"] = None) =>
    /\ HasKey(payload, "symbol")
    /\ payload.v["symbol"] = None
    /\ HasKey(payload, "error")

(* C7: the string a query operation returns is its final payload when that
   is within the budget, and the fixed notice when it is longer. *)

QueryOps ==
  {"get_symbols_overview", "find_symbol", "find_referencing_symbols", "get_hover_info",
   "get_definition_locations", "get_reference_locations", "get_defining_symbol"}

C7_ResponseIsTrimmed ==
  (pc = "responded" /\ request.op \in QueryOps /\ Succeeded) =>
    LET final == IF request.op = "get_hover_info" THEN payload ELSE _to_output(payload)
        given == IF request.op = "get_hover_info" THEN -1 ELSE request.max_answer_chars
        budget == IF given = -1 THEN DefaultMaxAnswerChars ELSE given
    IN IF Len(final.v) <= budget THEN response = final ELSE response = PyStr(TooLongNotice)

(* C8: Get overview of a missing path fails with FileNotFoundError, of a
   directory with ValueError, and get_symbol_overview is not called. *)

EntryText(part) == IF part.t = "str" THEN part.v ELSE part.v["value"].v

RECURSIVE BlankLineJoined(_)
BlankLineJoined(parts) ==
  IF Len(parts) = 0 THEN ""
  ELSE IF Len(parts) = 1 THEN EntryText(parts[1])
  ELSE BlankLineJoined(SubSeq(parts, 1, Len(parts) - 1)) \o "\n" \o "\n" \o EntryText(parts[Len(parts)])

C9_HoverNormalized ==
  (Responded("get_hover_info") /\ lsActive) =>
    /\ response.t = "str"
    /\ answer = None => response = PyStr("No hover information available.")
    /\ answer # None =>
         LET contents == DictGet(answer, "contents")
         IN /\ (\/ contents.t = "none"
                 \/ (contents.t = "str" /\ contents.v = "")
                 \/ (contents.t = "dict" /\ DOMAIN contents.v = {})
                 \/ (contents.t = "list" /\ Len(contents.v) = 0)) =>
                 response = PyStr("No content in hover result.")
            /\ (contents.t = "str" /\ contents.v # "") => response = contents
            /\ (contents.t = "dict" /\ HasKey(contents, "value")) => response = contents.v["value"]
            /\ (contents.t = "list"
                  /\ \A i \in 1..Len(contents.v) :
                       contents.v[i].t = "str"
                       \/ (contents.v[i].t = "dict" /\ HasKey(contents.v[i], "value")))
                 => (contents.v # <<>> => response = PyStr(BlankLineJoined(contents.v)))

C9_Witness ==
  /\ Responded("get_hover_info")
  /\ answer # None
  /\ DictGet(answer, "contents").t = "list"
  /\ response = PyStr("a\n\nb")

(* C10: when a referencing symbol has no relative path, Find referencing
   symbols raises AssertionError and returns nothing. *)

C10_MissingPathRaises ==
  (Responded("find_referencing_symbols") /\ answer # None
     /\ \E i \in 1..Len(answer.v) : answer.v[i].symbol.relative_path = None) =>
    /\ response = Raise("AssertionError")
    /\ payload = None

C10_Witness ==
  /\ Responded("find_referencing_symbols")
  /\ answer # None
  /\ Len(answer.v) = 2
  /\ answer.v[1].symbol.relative_path # None
  /\ answer.v[2].symbol.relative_path = None
  /\ response = Raise("AssertionError")

----------------------------------------------------------------------------
(* C11: in Find symbol and Find referencing symbols, a request whose
   include_kinds or exclude_kinds holds a value that is not one of the 26
   symbol kinds fails with InvalidArgument (ValueError) before any search:
   neither find_by_name nor find_referencing_symbols was called for it. *)

SearchOps == {"find_symbol", "find_referencing_symbols"}

\* the request names a kind outside the 26 symbol kinds
HasInvalidKind ==
  \/ \E i \in 1..Len(request.include_kinds) : request.include_kinds[i] \notin 1..26
  \/ \E i \in 1..Len(request.exclude_kinds) : request.exclude_kinds[i] \notin 1..26

SearchCalls == {i \in 1..Len(calls) : calls[i] \in {"find_by_name", "find_referencing_symbols"}}

C11_InvalidKindFailsBeforeSearch ==
  (pc = "responded" /\ request.op \in SearchOps /\ HasInvalidKind)
    => /\ response = Raise("ValueError")
       /\ SearchCalls = {}
       /\ answer = None

\* Find symbol was asked for the kinds 5 and 27 and raised without calling
\* the retriever
C11_Witness ==
  /\ Responded("find_symbol")
  /\ request.include_kinds = <<5, 27>>
  /\ response = Raise("ValueError")
  /\ calls = <<>>

----------------------------------------------------------------------------
(* C12: when the language-server session is not active, Hover, Get
   definition locations, Get reference locations and Get defining symbol
   fail at once with CollaboratorUnavailable (RuntimeError): no request was
   sent to an LSP session, none was repeated, and the failing operation did
   not restart the session. *)

LspOps == {"get_hover_info", "get_definition_locations", "get_reference_locations",
           "get_defining_symbol"}

C12_InactiveSessionFailsImmediately ==
  (pc = "responded" /\ request.op \in LspOps /\ ~ lsActive)
    => /\ response = Raise("RuntimeError")
       /\ calls = <<>>
       /\ answer = None
       /\ payload = None

\* Get defining symbol was asked while the session was not active
C12_Witness ==
  /\ Responded("get_defining_symbol")
  /\ ~ lsActive
  /\ response = Raise("RuntimeError")
  /\ calls = <<>>

----------------------------------------------------------------------------
(* C13: _format_range maps every zero-indexed range to the string
   "{start.line+1}:{start.character+1}-{end.line+1}:{end.character+1}": the
   four numbers are the input numbers plus one, in that order; the range
   start {1,2}, end {3,4} gives "2:3-4:5". *)

\* the decimal numeral of a one-indexed position number
OneIndexed(n) == ToString(n.v + 1)

C13_RangeIsOneIndexed ==
  Responded("_format_range") =>
    LET start == request.rng.v["start"].v
        end == request.rng.v["end"].v
    IN /\ response = PyStr(OneIndexed(start["line"]) \o ":" \o OneIndexed(start["character"])
                            \o "-" \o OneIndexed(end["line"]) \o ":" \o OneIndexed(end["character"]))
       /\ (request.rng = RangeOf(1, 2, 3, 4) => response = PyStr("2:3-4:5"))
       /\ (request.rng = RangeOf(9, 0, 99, 4) => response = PyStr("10:1-100:5"))
       /\ (request.rng = RangeOf(0, 0, 0, 0) => response = PyStr("1:1-1:1"))

\* the range of the claim's example was formatted
C13_Witness ==
  /\ Responded("_format_range")
  /\ request.rng = RangeOf(1, 2, 3, 4)
  /\ response = PyStr("2:3-4:5")

----------------------------------------------------------------------------
(* C14: the definition and the reference entry builders are the same
   function of their input: on every list of raw locations both produce the
   same list of entries or both fail; a raw location with a resolvable path
   and no range gives an entry without range and snippet in both. *)

LocationOps == {"get_definition_locations", "get_reference_locations"}

C14_BuildersAgree ==
  (pc = "responded" /\ request.op \in LocationOps /\ answer # None) =>
    LET by_definition == _format_definition_entries(answer.v)
        by_reference == _format_reference_entries(answer.v)
    IN IF IsRaise(by_definition) \/ IsRaise(by_reference)
       THEN IsRaise(by_definition) /\ IsRaise(by_reference)
       ELSE by_definition = by_reference

----------------------------------------------------------------------------
(* C15: the result of the clean-up pass holds no null, no empty list and no
   empty mapping as a field value or list element at any depth, containers
   emptied by the pass itself included; every other value (the empty
   string, 0 and false among them) is kept, list elements in their original
   order. *)

\* the field values of a dict, the elements of a list
Children(x) ==
  IF x.t = "dict" THEN {x.v[k] : k \in DOMAIN x.v}
  ELSE IF x.t = "list" THEN {x.v[i] : i \in 1..Len(x.v)}
  ELSE {}

\* a null, an empty list or an empty mapping
IsBlank(x) ==
  \/ x.t = "none"
  \/ x.t = "list" /\ Len(x.v) = 0
  \/ x.t = "dict" /\ DOMAIN x.v = {}

RECURSIVE NoBlankInside(_)
NoBlankInside(x) == \A c \in Children(x) : ~ IsBlank(c) /\ NoBlankInside(c)

\* a value of which nothing is left: a null, or a container of such values
RECURSIVE Vanishes(_)
Vanishes(x) ==
  \/ x.t = "none"
  \/ x.t \in {"list", "dict"} /\ \A c \in Children(x) : Vanishes(c)

\* r is x without the values that vanish, the others in place and in order
RECURSIVE KeepsTheRest(_, _)
KeepsTheRest(r, x) ==
  IF x.t = "list" THEN
    LET kept == SelectSeq(x.v, LAMBDA e : ~ Vanishes(e))
    IN /\ r.t = "list"
       /\ Len(r.v) = Len(kept)
       /\ \A i \in 1..Len(kept) : KeepsTheRest(r.v[i], kept[i])
  ELSE IF x.t = "dict" THEN
    /\ r.t = "dict"
    /\ DOMAIN r.v = {k \in DOMAIN x.v : ~ Vanishes(x.v[k])}
    /\ \A k \in DOMAIN r.v : KeepsTheRest(r.v[k], x.v[k])
  ELSE r = x

C15_CleanLeavesNoBlank ==
  Responded("_clean_none_and_empty") =>
    /\ NoBlankInside(response)
    /\ KeepsTheRest(response, request.obj)

\* a list of a container that holds nothing but a null and of a value to
\* keep was cleaned: the container went, the value stayed
C15_Witness ==
  /\ Responded("_clean_none_and_empty")
  /\ request.obj.t = "list"
  /\ Len(request.obj.v) = 2
  /\ request.obj.v[1] \in {PyList(<<None>>), PyDict("k" :> None)}
  /\ request.obj.v[2] \in {PyStr(""), PyInt(0), PyBool(FALSE)}
  /\ response = PyList(<<request.obj.v[2]>>)

====
